---- MODULE Spec2Model ----
(***************************************************************************)
(* RevTrack product-analysis endpoint.                                     *)
(*                                                                         *)
(*   src/lib/python-utils.ts  lines 51-216: the scraper adapter            *)
(*       (runPythonScript, scrapeAmazonProduct, analyzeReviews)            *)
(*   src/unnamed/part_000     the POST route handler                       *)
(*   @/lib/cache (productCache) is imported by the route but is not among  *)
(*       the source files; it is modelled from spec.md 3 and 4.3.          *)
(*                                                                         *)
(* JavaScript runs the handlers on one event loop, so one action is one    *)
(* event-loop turn: the arrival of a request (everything up to the first   *)
(* await that really suspends), one event of a worker process (close,      *)
(* error, timeout timer), one backoff timer, and the continuation after    *)
(* Promise.allSettled.                                                     *)
(*                                                                         *)
(* Texts (URLs, error messages, stderr) are sequences of words, and        *)
(* String.prototype.includes is containment of a contiguous word sequence. *)
(***************************************************************************)
EXTENDS Integers, Sequences, FiniteSets, TLC

VARIABLES
    now,            \* the wall clock (minutes), read by Date.now() / new Date()
    productCache,   \* url -> <<>> or <<[value, storedAt]>>
    pc,             \* per request slot: "idle", "fetching", "done"
    body,           \* per request slot: the request body being handled
    inv,            \* per request slot and script: the state of runPythonScript
    resp,           \* per request slot: <<>> or <<the response>>
    served,         \* number of requests that have arrived so far
    reqNo           \* per request slot: the number of the request it holds

vars == <<now, productCache, pc, body, inv, resp, served, reqNo>>

----------------------------------------------------------------------------
(* Program constants *)

MAX_RETRIES == 2
RETRY_DELAY == 1000
PROCESS_TIMEOUT_MS == 60000
\* spec.md 3: "TTL is a fixed configuration constant (e.g., 30 minutes)"
TTL == 30

(* Bounds of the model *)

\* the clock advances in steps of TickStep minutes up to MaxTime
TickStep == 15
MaxTime == 45
\* requests handled one after the other in a behaviour
MaxRequests == 3

----------------------------------------------------------------------------
(* Texts *)

\* String.prototype.includes at word granularity
Includes(text, needle) ==
    \E i \in 1..(Len(text) - Len(needle) + 1) :
        SubSeq(text, i, i + Len(needle) - 1) = needle

None == <<>>
Some(x) == <<x>>

\* JavaScript scalar values that occur in the payloads
Undefined == [tag |-> "undefined", s |-> ""]
Str(x) == [tag |-> "string", s |-> x]
Num(x) == [tag |-> "number", s |-> x]

\* v ?? d
Coalesce(v, d) == IF v.tag = "undefined" THEN d ELSE v
\* !v for a scalar
Falsy(v) ==
    \/ v.tag = "undefined"
    \/ v.tag = "string" /\ v.s = ""
    \/ v.tag = "number" /\ v.s = "0"

----------------------------------------------------------------------------
(* What a worker process can write and how it can end *)

\* a review object as script2.py prints it (only Stars steers the route)
StarsText == Str("5.0 out of 5 stars")
StarsNumber == Num("5")
Review(stars) == [Stars |-> stars]

\* a JSON payload: an object (with its title field) or an array (its items).
\* The other fields of a product object are taken to have the types that
\* ProductData (lines 55-67) declares; a review object has no declared type,
\* so its Stars may be a string or a number.
Object(title) == [kind |-> "object", title |-> title, items |-> <<>>]
Array(items) == [kind |-> "array", title |-> Undefined, items |-> items]
\* the JSON value null
Null == [kind |-> "null", title |-> Undefined, items |-> <<>>]

\* stdout of a worker that exited with status 0: not JSON at all, or a JSON
\* value with its own shape (self) and, when it is an object holding a
\* non-null "data" member, that member
Garbage == [json |-> FALSE, self |-> Object(Undefined), data |-> None]
Bare(payload) == [json |-> TRUE, self |-> payload, data |-> None]
Wrapped(payload) == [json |-> TRUE, self |-> Object(Undefined), data |-> Some(payload)]

TitleOk == Str("Widget")
TitleSentinel == Str("N/A")
TitleEmpty == Str("")

ProductStdouts ==
    { Garbage,
      Wrapped(Object(TitleOk)),
      Wrapped(Object(TitleSentinel)),
      Wrapped(Object(TitleEmpty)),
      Wrapped(Object(Undefined)),
      Bare(Null) }

ReviewStdouts ==
    { Garbage,
      Wrapped(Array(<<Review(StarsText)>>)),
      Bare(Array(<<>>)),
      Wrapped(Array(<<Review(StarsNumber)>>)),
      Bare(Object(Undefined)),
      Bare(Null) }

Kinds == {"product", "reviews"}
Stdouts(k) == IF k = "product" THEN ProductStdouts ELSE ReviewStdouts

\* stderr of a worker that exited with a nonzero status
Stderrs ==
    { <<"Traceback">>, <<"Rate", "Limit">>,
      <<"HTTP", "429">>, <<"rate", "limit">>,
      <<"too", "many", "requests">>, <<"blocked">> }

\* an exit: the status ("0", "1"; "null" after a signal and "-2" after a
\* failed spawn occur in WorkerClosesLate), stdout and stderr
Exit(code, out, err) == [code |-> code, out |-> out, err |-> err]
Exits(k) ==
    {Exit("0", out, <<>>) : out \in Stdouts(k)}
    \cup {Exit("1", Garbage, err) : err \in Stderrs}

\* the exits the route tells apart
PlainExits(k) ==
    IF k = "product"
    THEN { Exit("0", Wrapped(Object(TitleOk)), <<>>),
           Exit("0", Wrapped(Object(TitleSentinel)), <<>>),
           Exit("0", Wrapped(Object(Undefined)), <<>>),
           Exit("1", Garbage, <<"HTTP", "429">>) }
    ELSE { Exit("0", Wrapped(Array(<<Review(StarsText)>>)), <<>>),
           Exit("0", Bare(Array(<<>>)), <<>>),
           Exit("0", Wrapped(Array(<<Review(StarsNumber)>>)), <<>>),
           Exit("1", Garbage, <<"Traceback">>) }

----------------------------------------------------------------------------
(* runPythonScript: src/lib/python-utils.ts 81-172 *)

Attempts == 0..MAX_RETRIES

\* 2^n
RECURSIVE Pow2(_)
Pow2(n) == IF n = 0 THEN 1 ELSE 2 * Pow2(n - 1)

\* the backoff with attempts counted from 1
getRetryDelay_fromOne(attempt) == RETRY_DELAY * Pow2(attempt + 1)
\* line 78
getRetryDelay(attempt) == RETRY_DELAY * Pow2(attempt)

MsgRateLimited == <<"RATE_LIMITED">>
MsgTimeout ==
    <<"Process", "timed", "out", "after",
      ToString(PROCESS_TIMEOUT_MS \div 1000), "seconds">>
\* lines 114-115 (the stdout part of the message is left out: a worker that
\* fails is taken to have printed nothing the route could use)
MsgFailed(code, stderr) ==
    <<"Python", "script", "failed", "with", "code", code, "stderr:">> \o stderr
MsgParse == <<"Failed", "to", "parse", "Python", "script", "output:", "SyntaxError">>
\* line 134 inside the try of lines 131-138: reading .data of null throws
MsgParseNull == <<"Failed", "to", "parse", "Python", "script", "output:", "TypeError">>
MsgSpawn == <<"Failed", "to", "start", "Python", "process:", "spawn", "ENOENT">>

\* the state of one call of runPythonScript.  phase: "idle" (not called),
\* "running" (awaiting the attempt's promise), "sleeping" (awaiting sleep),
\* "resolved" (returned data), "rejected" (threw lastError).
\* arg: the URL handed to the script.
\* promise, timers, workers: per attempt, the promise of lines 86-145, its
\* timeout timer and its child process ("none", "spawned", "killed": signal
\* sent and close not yet seen, "failed": spawn failed and close not yet seen,
\* "closed").  slept, reason, onlyRL, printed record what happened: the delays
\* passed to sleep, the reason the latest attempt's promise was rejected with,
\* whether every attempt so far was rejected with RATE_LIMITED, and the
\* stdout of the worker that exited last.
InvIdle ==
    [ phase |-> "idle", arg |-> <<>>, attempt |-> 0, lastError |-> <<>>, data |-> None,
      promise |-> [a \in Attempts |-> "none"],
      timers |-> [a \in Attempts |-> FALSE],
      workers |-> [a \in Attempts |-> "none"],
      slept |-> <<>>, reason |-> <<>>, onlyRL |-> TRUE, printed |-> Garbage ]

\* lines 86-104: one iteration of the loop starts an attempt
StartAttempt(i, a) ==
    [i EXCEPT !.phase = "running", !.attempt = a,
              !.promise[a] = "pending",
              !.workers[a] = "spawned",
              !.timers[a] = TRUE]

\* lines 84-85: the loop head
LoopHead(i, a, maxRetries) ==
    IF a <= maxRetries
    THEN StartAttempt(i, a)
    ELSE [i EXCEPT !.phase = "rejected"]

\* a catch block that goes on to the next attempt without waiting
CatchBlock_noBackoff(i, error, maxRetries) ==
    LET j == [i EXCEPT !.lastError = error]
    IN  IF j.attempt = maxRetries
        THEN [j EXCEPT !.phase = "rejected"]
        ELSE LoopHead(j, j.attempt + 1, maxRetries)

\* a catch block that retries rate limiting only
CatchBlock_onlyRateLimit(i, error, maxRetries) ==
    LET j == [i EXCEPT !.lastError = error]
    IN  IF j.attempt = maxRetries \/ error # <<"RATE_LIMITED">>
        THEN [j EXCEPT !.phase = "rejected"]
        ELSE [j EXCEPT !.phase = "sleeping",
                       !.slept = Append(@, getRetryDelay(j.attempt))]

\* a catch block that keeps the first error
CatchBlock_firstError(i, error, maxRetries) ==
    LET j == [i EXCEPT !.lastError = IF @ = <<>> THEN error ELSE @]
    IN  IF j.attempt = maxRetries
        THEN [j EXCEPT !.phase = "rejected"]
        ELSE [j EXCEPT !.phase = "sleeping",
                       !.slept = Append(@, getRetryDelay(j.attempt))]

\* lines 146-167: the catch block, entered when the awaited promise rejects
CatchBlock(i, error, maxRetries) ==
    LET j == [i EXCEPT !.lastError = error]
    IN  IF j.attempt = maxRetries
        THEN [j EXCEPT !.phase = "rejected"]
        ELSE IF error = MsgRateLimited
        THEN [j EXCEPT !.phase = "sleeping",
                       !.slept = Append(@, getRetryDelay(j.attempt))]
        ELSE [j EXCEPT !.phase = "sleeping",
                       !.slept = Append(@, getRetryDelay(j.attempt))]

\* a reject that is acted on whenever it is called
Reject_settledAgain(i, a, error, maxRetries) ==
    CatchBlock([i EXCEPT !.promise[a] = "rejected",
                         !.reason = error,
                         !.onlyRL = @ /\ error = MsgRateLimited],
               error, maxRetries)

\* reject(err) on attempt a's promise: a settled promise stays as it is
Reject(i, a, error, maxRetries) ==
    IF i.promise[a] # "pending"
    THEN i
    ELSE CatchBlock([i EXCEPT !.promise[a] = "rejected",
                              !.reason = error,
                              !.onlyRL = @ /\ error = MsgRateLimited],
                    error, maxRetries)

\* resolve(v) on attempt a's promise; line 86: return await
Resolve(i, a, v) ==
    IF i.promise[a] # "pending"
    THEN i
    ELSE [i EXCEPT !.promise[a] = "fulfilled",
                   !.phase = "resolved",
                   !.data = Some(v),
                   !.onlyRL = FALSE]

\* lines 121-122
IsRateLimit(errorData) ==
    \/ Includes(errorData, <<"429">>)
    \/ Includes(errorData, <<"rate", "limit">>)
    \/ Includes(errorData, <<"too", "many", "requests">>)
    \/ Includes(errorData, <<"blocked">>)

\* line 134: parsed.data ?? parsed ?? {}
Unwrap(parsed) == IF parsed.data # None THEN parsed.data[1] ELSE parsed.self
\* line 134: parsed.data is a property read, a TypeError when parsed is null
UnwrapThrows(parsed) == parsed.self.kind = "null"

\* lines 109-139: the "close" handler of attempt a
CloseHandler(i, a, code, data, errorData, maxRetries) ==
    LET j == [i EXCEPT !.timers[a] = FALSE]
    IN  IF code # "0"
        THEN IF IsRateLimit(errorData)
             THEN Reject(j, a, MsgRateLimited, maxRetries)
             ELSE Reject(j, a, MsgFailed(code, errorData), maxRetries)
        ELSE IF ~data.json
             THEN Reject(j, a, MsgParse, maxRetries)
             ELSE IF UnwrapThrows(data)
             THEN Reject(j, a, MsgParseNull, maxRetries)
             ELSE Resolve(j, a, Unwrap(data))

\* a timeout callback that kills the worker and leaves the promise alone
TimeoutHandler_killOnly(i, a, maxRetries) ==
    [i EXCEPT !.timers[a] = FALSE,
              !.workers[a] = IF @ = "spawned" THEN "killed" ELSE @]

\* lines 101-104: the timeout callback of attempt a
TimeoutHandler(i, a, maxRetries) ==
    LET j == [i EXCEPT !.timers[a] = FALSE,
                       !.workers[a] = IF @ = "spawned" THEN "killed" ELSE @]
    IN  Reject(j, a, MsgTimeout, maxRetries)

\* lines 141-144: the "error" handler of attempt a
ErrorHandler(i, a, maxRetries) ==
    LET j == [i EXCEPT !.timers[a] = FALSE]
    IN  Reject(j, a, MsgSpawn, maxRetries)

\* line 81: the call with the default maxRetries
runPythonScript(arg) == LoopHead([InvIdle EXCEPT !.arg = arg], 0, MAX_RETRIES)

----------------------------------------------------------------------------
(* Request bodies and URLs *)

\* the words that start the path or the query of a URL
PathWords == {"/", "/dp/", "/product-reviews/", "/product", "?tag=x"}

UrlAmazon == <<"https", "://", "www", ".", "amazon", ".", "in", "/dp/", "B01", "?tag=x">>
UrlAmzn == <<"https", "://", "amzn", ".", "to", "/", "x">>
UrlExample == <<"https", "://", "example", ".", "com", "/product">>
UrlAmazonInPath == <<"https", "://", "example", ".", "com", "/", "amazon">>
UrlNoScheme == <<"example", ".", "com", "/product">>

UrlTexts == {UrlAmazon, UrlAmzn, UrlExample, UrlAmazonInPath, UrlNoScheme, <<>>}

\* a request body: not JSON at all, or JSON whose url member is missing, a
\* number or a string
Body(json, tag, text) == [json |-> json, tag |-> tag, text |-> text]
Bodies ==
    {Body(FALSE, "undefined", <<>>), Body(TRUE, "undefined", <<>>),
     Body(TRUE, "number", <<"42">>)}
    \cup {Body(TRUE, "string", t) : t \in UrlTexts}

\* new URL(url): parses iff the text starts with a scheme and "://"
UrlParses(text) == Len(text) >= 3 /\ text[2] = "://"

\* index of the first path or query word after the scheme, or Len + 1
PathStart(text) ==
    LET idx == {i \in 3..Len(text) : text[i] \in PathWords}
    IN  IF idx = {} THEN Len(text) + 1
        ELSE CHOOSE i \in idx : \A j \in idx : i <= j

\* new URL(url).hostname
Hostname(text) == SubSeq(text, 3, PathStart(text) - 1)

\* the accepted-domain test made on the whole URL text
isValidAmazonUrl_wholeUrl(text) ==
    /\ UrlParses(text)
    /\ \/ Includes(text, <<"amazon">>)
       \/ Includes(text, <<"amzn">>)
\* src/unnamed/part_000 23-31
isValidAmazonUrl(text) ==
    /\ UrlParses(text)
    /\ \/ Includes(Hostname(text), <<"amazon">>)
       \/ Includes(Hostname(text), <<"amzn">>)

\* line 54: the argument of the reviews script
ReviewsUrl(text) ==
    LET dp == {i \in 1..Len(text) : text[i] = "/dp/"}
        t1 == IF dp = {} THEN text
              ELSE [i \in 1..Len(text) |->
                      IF i = (CHOOSE m \in dp : \A j \in dp : m <= j)
                      THEN "/product-reviews/" ELSE text[i]]
        q  == {i \in 1..Len(t1) : t1[i] = "?tag=x"}
        t2 == IF q = {} THEN t1
              ELSE SubSeq(t1, 1, (CHOOSE m \in q : \A j \in q : m <= j) - 1)
    IN  t2 \o <<"/ref=cm_cr_dp_d_show_all_btm", "?pageNumber=1&sortBy=recent">>

\* the URLs that get past validation: the keys the cache can hold
CacheKeys == {t \in UrlTexts : isValidAmazonUrl(t)}

----------------------------------------------------------------------------
(* productCache, modelled from spec.md 3 and 4.3 *)

Entry(v, t) == [value |-> v, storedAt |-> t]

\* a get that never expires an entry
CacheGet_noExpiry(cache, key, t) ==
    IF cache[key] # None THEN Some(cache[key][1].value) ELSE None

CacheGet(cache, key, t) ==
    IF cache[key] # None /\ t - cache[key][1].storedAt < TTL
    THEN Some(cache[key][1].value)
    ELSE None

\* a set that keeps the entry a key already has
CacheSet_ifAbsent(cache, key, v, t) ==
    IF cache[key] # None THEN cache ELSE [cache EXCEPT ![key] = Some(Entry(v, t))]

CacheSet(cache, key, v, t) == [cache EXCEPT ![key] = Some(Entry(v, t))]

----------------------------------------------------------------------------
(* The wrappers of runPythonScript: src/lib/python-utils.ts 175-200 *)

Settled(status, reason, title, reviews) ==
    [status |-> status, reason |-> reason, title |-> title, reviews |-> reviews]

\* lines 175-190, as Promise.allSettled sees it (title is the field the
\* route branches on; the other fields get their defaults the same way)
scrapeAmazonProduct(i) ==
    IF i.phase = "rejected"
    THEN Settled("rejected", i.lastError, Undefined, <<>>)
    ELSE Settled("fulfilled", <<>>, Coalesce(i.data[1].title, Str("N/A")), <<>>)

\* lines 193-200, as Promise.allSettled sees it
analyzeReviews(i) ==
    IF i.phase = "rejected"
    THEN Settled("rejected", i.lastError, Undefined, <<>>)
    ELSE IF i.data[1].kind # "array"
    THEN Settled("fulfilled", <<>>, Undefined, <<>>)
    ELSE Settled("fulfilled", <<>>, Undefined,
                 [n \in 1..Len(i.data[1].items) |->
                     Review(Coalesce(i.data[1].items[n].Stars, Str("0")))])

----------------------------------------------------------------------------
(* POST: src/unnamed/part_000 *)

Reqs == {"r1", "r2"}

REVIEW_EXCERPT == 25

ErrorResponse(status, error) ==
    [status |-> status, error |-> error, cached |-> FALSE, result |-> None]
\* a hit that returns the stored object as it is
CachedResponse_stale(value, t) ==
    [status |-> 200, error |-> "", cached |-> TRUE, result |-> Some(value)]
\* lines 43-47: { ...cachedResult, cached: true, lastUpdated: now }
CachedResponse(value, t) ==
    [status |-> 200, error |-> "", cached |-> TRUE,
     result |-> Some([value EXCEPT !.lastUpdated = t])]
\* line 308
SuccessResponse(value) ==
    [status |-> 200, error |-> "", cached |-> FALSE, result |-> Some(value)]

\* lines 9-35: the response that rejects the body, or <<>> when it is accepted
Validate(b) ==
    IF b.tag # "string" \/ b.text = <<>>
    THEN Some(ErrorResponse(400, "Valid URL is required"))
    ELSE IF ~UrlParses(b.text)
    THEN Some(ErrorResponse(400, "Invalid URL format"))
    ELSE IF ~isValidAmazonUrl(b.text)
    THEN Some(ErrorResponse(400, "Only Amazon URLs are supported"))
    ELSE None

\* line 62 without the test for the sentinel
ProductUnusable_noSentinel(productData) ==
    \/ productData.status = "rejected"
    \/ Falsy(productData.title)
\* line 62 testing the status only
ProductUnusable_onlyRejected(productData) ==
    productData.status = "rejected"
\* line 62
ProductUnusable(productData) ==
    \/ productData.status = "rejected"
    \/ Falsy(productData.title)
    \/ productData.title = Str("N/A")

\* lines 71-77
ReviewsOf(reviewsData) ==
    IF reviewsData.status = "fulfilled" THEN reviewsData.reviews ELSE <<>>

\* lines 102-107, 218-222, 241-245: review.Stars?.replace(...) is a call of
\* String.prototype.replace; on a Stars that is not a string it throws
DerivedThrows(reviews) ==
    \E n \in 1..Len(reviews) : reviews[n].Stars.tag # "string"
MsgTypeError == <<"review.Stars?.replace", "is", "not", "a", "function">>

\* lines 310-331: the catch around the fetch and the analysis
CatchAnalysis(message) ==
    IF Includes(message, <<"rate", "limit">>) \/ Includes(message, <<"429">>)
    THEN ErrorResponse(429, "Rate limit exceeded")
    ELSE IF Includes(message, <<"timeout">>)
    THEN ErrorResponse(408, "Analysis timeout")
    ELSE ErrorResponse(500, "Analysis failed")

\* lines 272-301 (the derived fields are functions of these and are left out)
Result(url, productInfo, reviews, t) ==
    [ title |-> productInfo.title, productUrl |-> url,
      reviews |-> SubSeq(reviews, 1, IF Len(reviews) < REVIEW_EXCERPT
                                     THEN Len(reviews) ELSE REVIEW_EXCERPT),
      reviewCount |-> Len(reviews),
      lastUpdated |-> t ]

\* the route storing what it has before it knows the request succeeds
Complete_cacheFailure(url, productData, reviewsData, cache, t) ==
    LET reviews == ReviewsOf(reviewsData)
        result == Result(url, productData, reviews, t)
        stored == CacheSet(cache, url, result, t)
    IN  IF ProductUnusable(productData)
        THEN [resp |-> ErrorResponse(400, "Unable to extract product information"),
              cache |-> stored]
        ELSE IF DerivedThrows(reviews)
        THEN [resp |-> CatchAnalysis(MsgTypeError), cache |-> stored]
        ELSE [resp |-> SuccessResponse(result), cache |-> stored]

\* the route with Promise.all in place of Promise.allSettled: the first
\* rejection is thrown into the catch of lines 310-331
Complete_failFast(url, productData, reviewsData, cache, t) ==
    IF productData.status = "rejected"
    THEN [resp |-> CatchAnalysis(productData.reason), cache |-> cache]
    ELSE IF reviewsData.status = "rejected"
    THEN [resp |-> CatchAnalysis(reviewsData.reason), cache |-> cache]
    ELSE IF ProductUnusable(productData)
    THEN [resp |-> ErrorResponse(400, "Unable to extract product information"),
          cache |-> cache]
    ELSE LET reviews == ReviewsOf(reviewsData)
         IN  IF DerivedThrows(reviews)
             THEN [resp |-> CatchAnalysis(MsgTypeError), cache |-> cache]
             ELSE LET result == Result(url, productData, reviews, t)
                  IN  [resp |-> SuccessResponse(result),
                       cache |-> CacheSet(cache, url, result, t)]

\* the route returning its result without storing it
Complete_noStore(url, productData, reviewsData, cache, t) ==
    IF ProductUnusable(productData)
    THEN [resp |-> ErrorResponse(400, "Unable to extract product information"),
          cache |-> cache]
    ELSE LET reviews == ReviewsOf(reviewsData)
         IN  IF DerivedThrows(reviews)
             THEN [resp |-> CatchAnalysis(MsgTypeError), cache |-> cache]
             ELSE [resp |-> SuccessResponse(Result(url, productData, reviews, t)),
                   cache |-> cache]

\* lines 56-331: what the route does once both fetches have settled:
\* the response, and the cache it leaves
Complete(url, productData, reviewsData, cache, t) ==
    IF ProductUnusable(productData)
    THEN [resp |-> ErrorResponse(400, "Unable to extract product information"),
          cache |-> cache]
    ELSE LET reviews == ReviewsOf(reviewsData)
         IN  IF DerivedThrows(reviews)
             THEN [resp |-> CatchAnalysis(MsgTypeError), cache |-> cache]
             ELSE LET result == Result(url, productData, reviews, t)
                  IN  [resp |-> SuccessResponse(result),
                       cache |-> CacheSet(cache, url, result, t)]

----------------------------------------------------------------------------
(* Actions *)

Init ==
    /\ now = 0
    /\ productCache = [u \in CacheKeys |-> None]
    /\ pc = [r \in Reqs |-> "idle"]
    /\ body = [r \in Reqs |-> Body(FALSE, "undefined", <<>>)]
    /\ inv = [r \in Reqs |-> [k \in Kinds |-> InvIdle]]
    /\ resp = [r \in Reqs |-> None]
    /\ served = 0
    /\ reqNo = [r \in Reqs |-> 0]

\* an arrival whose hit stores the refreshed value again (a cache that
\* slides its expiry on reads)
Arrive_touchOnHit(r, b) ==
    /\ pc[r] \in {"idle", "done"}
    /\ served < MaxRequests
    /\ served' = served + 1
    /\ reqNo' = [reqNo EXCEPT ![r] = served + 1]
    /\ body' = [body EXCEPT ![r] = b]
    /\ now' = now
    /\ IF ~b.json
       THEN \* line 7 throws; lines 333-339
            /\ resp' = [resp EXCEPT ![r] =
                          Some(ErrorResponse(500, "Failed to process request"))]
            /\ productCache' = productCache
            /\ pc' = [pc EXCEPT ![r] = "done"]
            /\ inv' = [inv EXCEPT ![r] = [k \in Kinds |-> InvIdle]]
       ELSE IF Validate(b) # None
       THEN /\ resp' = [resp EXCEPT ![r] = Validate(b)]
            /\ productCache' = productCache
            /\ pc' = [pc EXCEPT ![r] = "done"]
            /\ inv' = [inv EXCEPT ![r] = [k \in Kinds |-> InvIdle]]
       ELSE IF CacheGet(productCache, b.text, now) # None
       THEN /\ resp' = [resp EXCEPT ![r] =
                          Some(CachedResponse(CacheGet(productCache, b.text, now)[1], now))]
            /\ productCache' =
                  CacheSet(productCache, b.text,
                           [CacheGet(productCache, b.text, now)[1]
                               EXCEPT !.lastUpdated = now], now)
            /\ pc' = [pc EXCEPT ![r] = "done"]
            /\ inv' = [inv EXCEPT ![r] = [k \in Kinds |-> InvIdle]]
       ELSE /\ resp' = [resp EXCEPT ![r] = None]
            /\ productCache' = productCache
            /\ pc' = [pc EXCEPT ![r] = "fetching"]
            /\ inv' = [inv EXCEPT ![r] =
                         [k \in Kinds |->
                            IF k = "product"
                            THEN runPythonScript(b.text)
                            ELSE runPythonScript(ReviewsUrl(b.text))]]

\* A request arrives in a free slot and runs up to its first suspension
\* (lines 5-59): an error response, a cache hit, or both scripts started.
Arrive(r, b) ==
    /\ pc[r] \in {"idle", "done"}
    /\ served < MaxRequests
    /\ served' = served + 1
    /\ reqNo' = [reqNo EXCEPT ![r] = served + 1]
    /\ body' = [body EXCEPT ![r] = b]
    /\ UNCHANGED <<now, productCache>>
    /\ IF ~b.json
       THEN \* line 7 throws; lines 333-339
            /\ resp' = [resp EXCEPT ![r] =
                          Some(ErrorResponse(500, "Failed to process request"))]
            /\ pc' = [pc EXCEPT ![r] = "done"]
            /\ inv' = [inv EXCEPT ![r] = [k \in Kinds |-> InvIdle]]
       ELSE IF Validate(b) # None
       THEN /\ resp' = [resp EXCEPT ![r] = Validate(b)]
            /\ pc' = [pc EXCEPT ![r] = "done"]
            /\ inv' = [inv EXCEPT ![r] = [k \in Kinds |-> InvIdle]]
       ELSE IF CacheGet(productCache, b.text, now) # None
       THEN /\ resp' = [resp EXCEPT ![r] =
                          Some(CachedResponse(CacheGet(productCache, b.text, now)[1], now))]
            /\ pc' = [pc EXCEPT ![r] = "done"]
            /\ inv' = [inv EXCEPT ![r] = [k \in Kinds |-> InvIdle]]
       ELSE /\ resp' = [resp EXCEPT ![r] = None]
            /\ pc' = [pc EXCEPT ![r] = "fetching"]
            /\ inv' = [inv EXCEPT ![r] =
                         [k \in Kinds |->
                            IF k = "product"
                            THEN runPythonScript(b.text)
                            ELSE runPythonScript(ReviewsUrl(b.text))]]

\* The worker of the running attempt exits: "close" with its status and output
WorkerCloses(r, k, o) ==
    /\ inv[r][k].phase = "running"
    /\ inv[r][k].workers[inv[r][k].attempt] = "spawned"
    /\ LET a == inv[r][k].attempt
           i == [inv[r][k] EXCEPT !.workers[a] = "closed", !.printed = o.out]
       IN  inv' = [inv EXCEPT ![r][k] =
                     CloseHandler(i, a, o.code, o.out, o.err, MAX_RETRIES)]
    /\ UNCHANGED <<now, productCache, pc, body, resp, served, reqNo>>

\* The timeout timer of an attempt fires
TimerFires(r, k, a) ==
    /\ inv[r][k].timers[a]
    /\ inv' = [inv EXCEPT ![r][k] = TimeoutHandler(inv[r][k], a, MAX_RETRIES)]
    /\ UNCHANGED <<now, productCache, pc, body, resp, served, reqNo>>

\* The worker of the running attempt could not be started: "error"
SpawnFails(r, k) ==
    /\ inv[r][k].phase = "running"
    /\ inv[r][k].workers[inv[r][k].attempt] = "spawned"
    /\ LET a == inv[r][k].attempt
           i == [inv[r][k] EXCEPT !.workers[a] = "failed"]
       IN  inv' = [inv EXCEPT ![r][k] = ErrorHandler(i, a, MAX_RETRIES)]
    /\ UNCHANGED <<now, productCache, pc, body, resp, served, reqNo>>

\* "close" of a worker that was killed by the timeout, or whose spawn failed
WorkerClosesLate(r, k, a) ==
    /\ inv[r][k].workers[a] \in {"killed", "failed"}
    /\ LET code == IF inv[r][k].workers[a] = "killed" THEN "null" ELSE "-2"
           i == [inv[r][k] EXCEPT !.workers[a] = "closed"]
       IN  inv' = [inv EXCEPT ![r][k] =
                     CloseHandler(i, a, code, Garbage, <<>>, MAX_RETRIES)]
    /\ UNCHANGED <<now, productCache, pc, body, resp, served, reqNo>>

\* The backoff sleep ends: lines 160/167, then the next iteration
SleepDone(r, k) ==
    /\ inv[r][k].phase = "sleeping"
    /\ inv' = [inv EXCEPT ![r][k] =
                 LoopHead(inv[r][k], inv[r][k].attempt + 1, MAX_RETRIES)]
    /\ UNCHANGED <<now, productCache, pc, body, resp, served, reqNo>>

\* the continuation with Promise.all in place of Promise.allSettled: it runs
\* as soon as one call has thrown, into the catch of lines 310-331
Finish_onFirstRejection(r) ==
    /\ pc[r] = "fetching"
    /\ \/ \A k \in Kinds : inv[r][k].phase \in {"resolved", "rejected"}
       \/ \E k \in Kinds : inv[r][k].phase = "rejected"
    /\ IF \E k \in Kinds : inv[r][k].phase = "rejected"
       THEN /\ resp' = [resp EXCEPT ![r] =
                          Some(CatchAnalysis(
                                 (CHOOSE i \in {inv[r][k] : k \in Kinds} :
                                      i.phase = "rejected").lastError))]
            /\ productCache' = productCache
       ELSE LET c == Complete(body[r].text,
                              scrapeAmazonProduct(inv[r]["product"]),
                              analyzeReviews(inv[r]["reviews"]),
                              productCache, now)
            IN  /\ resp' = [resp EXCEPT ![r] = Some(c.resp)]
                /\ productCache' = c.cache
    /\ pc' = [pc EXCEPT ![r] = "done"]
    /\ UNCHANGED <<now, body, inv, served, reqNo>>

\* Promise.allSettled resolves: lines 56-331
Finish(r) ==
    /\ pc[r] = "fetching"
    /\ \A k \in Kinds : inv[r][k].phase \in {"resolved", "rejected"}
    /\ LET c == Complete(body[r].text,
                         scrapeAmazonProduct(inv[r]["product"]),
                         analyzeReviews(inv[r]["reviews"]),
                         productCache, now)
       IN  /\ resp' = [resp EXCEPT ![r] = Some(c.resp)]
           /\ productCache' = c.cache
    /\ pc' = [pc EXCEPT ![r] = "done"]
    /\ UNCHANGED <<now, body, inv, served, reqNo>>

\* Time passes
Tick ==
    /\ now + TickStep <= MaxTime
    /\ now' = now + TickStep
    /\ UNCHANGED <<productCache, pc, body, inv, resp, served, reqNo>>

\* One request, against everything a worker can do
ArriveOnce(r, b) == served = 0 /\ Arrive(r, b)

Next ==
    \/ \E b \in Bodies : ArriveOnce("r1", b)
    \/ \E r \in Reqs, k \in Kinds : \E o \in Exits(k) : WorkerCloses(r, k, o)
    \/ \E r \in Reqs, k \in Kinds, a \in Attempts : TimerFires(r, k, a)
    \/ \E r \in Reqs, k \in Kinds : SpawnFails(r, k)
    \/ \E r \in Reqs, k \in Kinds, a \in Attempts : WorkerClosesLate(r, k, a)
    \/ \E r \in Reqs, k \in Kinds : SleepDone(r, k)
    \/ \E r \in Reqs : Finish(r)

Spec == Init /\ [][Next]_vars

\* Requests one after the other while time passes, against workers that
\* succeed or fail in the ways the route tells apart
NextCache ==
    \/ \E b \in Bodies : Arrive("r1", b)
    \/ \E r \in Reqs, k \in Kinds : \E o \in PlainExits(k) : WorkerCloses(r, k, o)
    \/ \E r \in Reqs, k \in Kinds : SleepDone(r, k)
    \/ \E r \in Reqs : Finish(r)
    \/ Tick

SpecCache == Init /\ [][NextCache]_vars

\* Two requests in flight at once while time passes, against workers that
\* succeed or fail
PairBodies == {Body(TRUE, "string", UrlAmazon), Body(TRUE, "string", UrlAmzn)}
PairExits(k) ==
    IF k = "product"
    THEN { Exit("0", Wrapped(Object(TitleOk)), <<>>),
           Exit("1", Garbage, <<"HTTP", "429">>) }
    ELSE { Exit("0", Wrapped(Array(<<Review(StarsText)>>)), <<>>),
           Exit("1", Garbage, <<"Traceback">>) }

\* the first request of a slot
ArriveFirst(r, b) == reqNo[r] = 0 /\ Arrive(r, b)

NextPair ==
    \/ \E r \in Reqs, b \in PairBodies : ArriveFirst(r, b)
    \/ \E r \in Reqs, k \in Kinds : \E o \in PairExits(k) : WorkerCloses(r, k, o)
    \/ \E r \in Reqs, k \in Kinds : SleepDone(r, k)
    \/ \E r \in Reqs : Finish(r)
    \/ Tick

SpecPair == Init /\ [][NextPair]_vars

\* One request against workers that exit, fail to start, or never exit.
\* What is taken to happen when it can: an armed timeout timer fires
\* (setTimeout, line 101), a backoff sleep ends (setTimeout, line 75) and the
\* continuation of a settled Promise.allSettled runs.  Nothing is taken
\* about the workers: each may exit at any time or never.
NextLive ==
    \/ \E b \in Bodies : ArriveOnce("r1", b)
    \/ \E r \in Reqs, k \in Kinds : \E o \in PlainExits(k) : WorkerCloses(r, k, o)
    \/ \E r \in Reqs, k \in Kinds, a \in Attempts : TimerFires(r, k, a)
    \/ \E r \in Reqs, k \in Kinds : SpawnFails(r, k)
    \/ \E r \in Reqs, k \in Kinds, a \in Attempts : WorkerClosesLate(r, k, a)
    \/ \E r \in Reqs, k \in Kinds : SleepDone(r, k)
    \/ \E r \in Reqs : Finish(r)

Fairness ==
    /\ \A r \in Reqs, k \in Kinds, a \in Attempts : WF_vars(TimerFires(r, k, a))
    /\ \A r \in Reqs, k \in Kinds : WF_vars(SleepDone(r, k))
    /\ \A r \in Reqs : WF_vars(Finish(r))

SpecLive == Init /\ [][NextLive]_vars /\ Fairness

----------------------------------------------------------------------------
(* Properties *)

\* request r gets its response in this step
Ends(r) ==
    /\ pc'[r] = "done"
    /\ reqNo'[r] # reqNo[r] \/ pc[r] = "fetching"

\* the attempts of a call for which a worker was spawned
Spawned(i) == {a \in Attempts : i.workers[a] # "none"}

\* C1: a request for u that arrives while the entry stored for u by an
\* earlier successful miss is within its TTL is answered at once with the
\* stored payload, marked cached and with lastUpdated set to the current
\* time, and no worker is spawned for it.
C1_CachedWithinTTL ==
    [][\A r \in Reqs, u \in CacheKeys :
          ( /\ reqNo'[r] # reqNo[r]
            /\ body'[r] = Body(TRUE, "string", u)
            /\ productCache[u] # None
            /\ now - productCache[u][1].storedAt < TTL )
          => /\ pc'[r] = "done"
             /\ resp'[r] =
                  Some([status |-> 200, error |-> "", cached |-> TRUE,
                        result |-> Some([productCache[u][1].value
                                            EXCEPT !.lastUpdated = now])])
             /\ \A k \in Kinds : Spawned(inv'[r][k]) = {}]_vars

\* the second request was served from the cache at a later time than the
\* entry was stored
C1_Witness ==
    \E r \in Reqs :
        /\ pc[r] = "done" /\ reqNo[r] = 2
        /\ resp[r] # None /\ resp[r][1].cached
        /\ resp[r][1].result[1].lastUpdated
             > productCache[body[r].text][1].storedAt
        /\ resp[r][1].result[1].title = productCache[body[r].text][1].value.title

\* C2: a step in which a request gets an error response leaves the cache as
\* it was, and the cache changes only in a step that returns a fresh
\* success response.
C2_FailuresNotCached ==
    [][ /\ \A r \in Reqs :
              (Ends(r) /\ resp'[r][1].status # 200) => productCache' = productCache
        /\ productCache' # productCache =>
              \E r \in Reqs : /\ pc[r] = "fetching" /\ Ends(r)
                              /\ resp'[r][1].status = 200
                              /\ ~resp'[r][1].cached ]_vars

\* the second request failed in its primary fetch and the entry stored by
\* the first one is still there
C2_Witness ==
    \E r \in Reqs :
        /\ pc[r] = "done" /\ reqNo[r] = 2
        /\ inv[r]["product"].phase = "rejected"
        /\ resp[r][1].status # 200
        /\ productCache[body[r].text] # None

\* C3: a request whose primary fetch was rejected, or returned a snapshot
\* with no title or with the title "N/A", ends in an error response and
\* stores nothing, whatever the secondary fetch did.
C3_PrimaryUnusableFails ==
    \A r \in Reqs :
        LET p == inv[r]["product"]
        IN  ( /\ pc[r] = "done"
              /\ \/ p.phase = "rejected"
                 \/ /\ p.phase = "resolved"
                    /\ p.data[1].title \in {Undefined, TitleSentinel} )
            => /\ resp[r][1].status # 200
               /\ resp[r][1].result = None
               /\ productCache[body[r].text] = None

\* the primary returned the sentinel title while the secondary returned
\* reviews, and the request failed
C3_Witness ==
    \E r \in Reqs :
        /\ pc[r] = "done"
        /\ inv[r]["product"].phase = "resolved"
        /\ inv[r]["product"].data[1].title = TitleSentinel
        /\ inv[r]["reviews"].phase = "resolved"
        /\ inv[r]["reviews"].data[1].items = <<Review(StarsText)>>
        /\ resp[r][1].status = 400

\* C4: a request whose primary fetch returned a usable snapshot and whose
\* secondary fetch was rejected succeeds: the response is a fresh success
\* with no reviews, and it is what the cache holds for the URL.
C4_SecondaryFailureTolerated ==
    \A r \in Reqs :
        LET p == inv[r]["product"]
        IN  ( /\ pc[r] = "done"
              /\ p.phase = "resolved"
              /\ p.data[1].title = TitleOk
              /\ inv[r]["reviews"].phase = "rejected" )
            => /\ resp[r][1].status = 200
               /\ ~resp[r][1].cached
               /\ resp[r][1].result # None
               /\ resp[r][1].result[1].title = TitleOk
               /\ resp[r][1].result[1].reviews = <<>>
               /\ resp[r][1].result[1].reviewCount = 0
               /\ productCache[body[r].text] # None
               /\ productCache[body[r].text][1].value = resp[r][1].result[1]

\* the secondary fetch ended in a timeout after its retries and the request
\* succeeded
C4_Witness ==
    \E r \in Reqs :
        /\ pc[r] = "done"
        /\ inv[r]["product"].phase = "resolved"
        /\ inv[r]["product"].data[1].title = TitleOk
        /\ inv[r]["reviews"].phase = "rejected"
        /\ inv[r]["reviews"].lastError = MsgTimeout
        /\ resp[r][1].status = 200

\* C5: a request whose primary fetch was rejected with RATE_LIMITED on every
\* attempt gets the rate-limit response (429) and stores nothing.
C5_RateLimitedClass ==
    \A r \in Reqs :
        LET p == inv[r]["product"]
        IN  (pc[r] = "done" /\ p.phase = "rejected" /\ p.onlyRL)
            => /\ resp[r][1].status = 429
               /\ productCache[body[r].text] = None

\* C6: a request whose primary fetch was rejected because its last worker
\* timed out gets the timeout response (408).
C6_TimeoutClass ==
    \A r \in Reqs :
        LET p == inv[r]["product"]
        IN  (pc[r] = "done" /\ p.phase = "rejected" /\ p.reason = MsgTimeout)
            => resp[r][1].status = 408

\* C7: a call of runPythonScript spawns its attempts one after the other,
\* at most MAX_RETRIES + 1 of them; it gives up only when attempt
\* MAX_RETRIES has failed, whatever the failures were; and it returns at the
\* first attempt that succeeds, with what that attempt's worker printed.
C7_AttemptBudget ==
    \A r \in Reqs, k \in Kinds :
        LET i == inv[r][k]
        IN  /\ i.attempt \in 0..MAX_RETRIES
            /\ Cardinality(Spawned(i)) <= MAX_RETRIES + 1
            /\ i.phase # "idle" => Spawned(i) = 0..i.attempt
            /\ \A a \in Attempts : a < i.attempt => i.promise[a] = "rejected"
            /\ i.phase = "running" => i.promise[i.attempt] = "pending"
            /\ i.phase = "sleeping" =>
                  i.promise[i.attempt] = "rejected" /\ i.attempt < MAX_RETRIES
            /\ i.phase = "rejected" =>
                  i.promise[i.attempt] = "rejected" /\ i.attempt = MAX_RETRIES
            /\ i.phase = "resolved" =>
                  /\ i.promise[i.attempt] = "fulfilled"
                  /\ i.printed.json
                  /\ i.data # None
                  /\ i.data[1] = i.printed.self \/ i.printed.data = Some(i.data[1])

\* the first attempt timed out, the second printed no JSON, the third
\* succeeded and its payload was returned
C7_Witness ==
    \E r \in Reqs :
        LET i == inv[r]["product"]
        IN  /\ i.phase = "resolved" /\ i.attempt = 2
            /\ i.workers[0] = "killed"
            /\ i.lastError = MsgParse
            /\ i.data = Some(Object(TitleOk))

\* C8: the delays a call has slept are 1000 ms after the first failed attempt
\* and 2000 ms after the second, one for each failed attempt that is not the
\* last, whatever the failures were.
C8_BackoffDelays ==
    \A r \in Reqs, k \in Kinds :
        LET i == inv[r][k]
            retried == {a \in Attempts : i.promise[a] = "rejected" /\ a < MAX_RETRIES}
        IN  /\ i.slept = [n \in 1..Cardinality(retried) |->
                             IF n = 1 THEN 1000 ELSE 2000]
            /\ i.phase = "resolved" /\ i.attempt = 2 => i.slept = <<1000, 2000>>
            /\ i.phase = "rejected" => i.slept = <<1000, 2000>>

\* two rate-limited attempts, then a success, after delays of 1000 and 2000
C8_Witness ==
    \E r \in Reqs :
        LET i == inv[r]["product"]
        IN  /\ i.phase = "resolved" /\ i.attempt = 2
            /\ i.reason = MsgRateLimited
            /\ i.lastError = MsgRateLimited
            /\ i.slept = <<1000, 2000>>

\* C9: a call that has used all its attempts throws the error of the last
\* attempt; it returns no data, and its wrapper is rejected with that error.
C9_LastOutcomeSurfaced ==
    \A r \in Reqs, k \in Kinds :
        LET i == inv[r][k]
        IN  i.phase = "rejected" =>
              /\ i.reason # <<>>
              /\ i.lastError = i.reason
              /\ i.data = None
              /\ Cardinality(Spawned(i)) = MAX_RETRIES + 1
              /\ scrapeAmazonProduct(i) = Settled("rejected", i.reason, Undefined, <<>>)
              /\ analyzeReviews(i) = Settled("rejected", i.reason, Undefined, <<>>)

\* the first attempt timed out and the last one printed no JSON: the parse
\* error is thrown
C9_Witness ==
    \E r \in Reqs, k \in Kinds :
        LET i == inv[r][k]
        IN  /\ i.phase = "rejected"
            /\ i.workers[0] = "killed"
            /\ i.lastError = MsgParse

\* C10: when a call of runPythonScript has returned or thrown, none of the
\* workers it spawned is still running.
C10_NoWorkerLeft ==
    \A r \in Reqs, k \in Kinds :
        inv[r][k].phase \in {"resolved", "rejected"} =>
            \A a \in Attempts : inv[r][k].workers[a] \in {"none", "failed", "closed"}

Live(cache, k, t) == cache[k] # None /\ t - cache[k][1].storedAt < TTL

\* C12: at every moment and for every key, get returns a value exactly when
\* an entry is held for the key and is younger than TTL, and then it returns
\* the stored value; the route sees it so: a request for u is served from the
\* cache exactly when the entry of u is live, and otherwise (never stored, or
\* stored and expired) it starts its fetches; and once a request that found
\* an expired entry has stored its result, get returns that result.
C12_GetIffLive ==
    [][ /\ \A k \in CacheKeys :
              /\ CacheGet(productCache', k, now') # None
                    <=> Live(productCache', k, now')
              /\ Live(productCache', k, now') =>
                    CacheGet(productCache', k, now')
                       = Some(productCache'[k][1].value)
        /\ \A r \in Reqs, u \in CacheKeys :
              (reqNo'[r] # reqNo[r] /\ body'[r] = Body(TRUE, "string", u))
              => /\ (pc'[r] = "done" /\ resp'[r][1].cached)
                       <=> Live(productCache, u, now)
                 /\ pc'[r] = "fetching" <=> ~Live(productCache, u, now)
        /\ \A r \in Reqs :
              ( /\ Ends(r) /\ pc[r] = "fetching"
                /\ resp'[r][1].status = 200
                /\ productCache[body[r].text] # None
                /\ ~Live(productCache, body[r].text, now) )
              => CacheGet(productCache', body[r].text, now')
                    = resp'[r][1].result ]_vars

\* a request has missed on a URL whose entry is still held but has expired
C12_Witness ==
    \E r \in Reqs :
        /\ pc[r] = "fetching"
        /\ productCache[body[r].text] # None
        /\ now - productCache[body[r].text][1].storedAt >= TTL

\* C13: the step in which a request stores its result v for its URL u leaves
\* the cache such that get(u) at that moment returns v, with storedAt the
\* current time, whether u had no entry, an expired entry or a live entry
\* with another value; and it leaves the entries of all other keys, and so
\* what get returns for them, as they were.
C13_ReadYourWrite ==
    [][\A r \in Reqs :
          ( /\ Ends(r) /\ pc[r] = "fetching"
            /\ resp'[r][1].status = 200 )
          => LET u == body[r].text
             IN  /\ CacheGet(productCache', u, now') = resp'[r][1].result
                 /\ productCache'[u][1].storedAt = now
                 /\ \A k \in CacheKeys \ {u} :
                       /\ productCache'[k] = productCache[k]
                       /\ CacheGet(productCache', k, now')
                             = CacheGet(productCache, k, now)]_vars

\* two requests for one URL both missed; the one that finished first stored a
\* result with a review, and the other has overwritten it, while it was live,
\* with a result without reviews, which is what get returns now
C13_Witness ==
    \E r, q \in Reqs :
        /\ r # q
        /\ pc[r] = "done" /\ pc[q] = "done"
        /\ body[r] = body[q]
        /\ resp[r][1].status = 200 /\ ~resp[r][1].cached
        /\ resp[q][1].status = 200 /\ ~resp[q][1].cached
        /\ resp[r][1].result[1].reviewCount = 1
        /\ resp[q][1].result[1].reviewCount = 0
        /\ resp[q][1].result[1].lastUpdated - resp[r][1].result[1].lastUpdated
              \in 0..(TTL - 1)
        /\ CacheGet(productCache, body[q].text, now) = resp[q][1].result

\* a call of runPythonScript has returned or thrown
IsSettled(i) == i.phase \in {"resolved", "rejected"}

\* C14: the turn in which a request misses starts the first attempt of both
\* scripts; from then on every event changes the call of one script only and
\* leaves the other call as it is, whatever it does to its own (a failure, a
\* timeout, a retry); a call that has returned or thrown keeps its outcome
\* and its attempts; and the request gets its response only in a turn in
\* which both calls have settled, and has none before.
C14_SettleAll ==
    [][\A r \in Reqs :
          /\ (pc[r] # "fetching" /\ pc'[r] = "fetching") =>
                \A k \in Kinds :
                    /\ inv'[r][k].phase = "running"
                    /\ inv'[r][k].attempt = 0
                    /\ Spawned(inv'[r][k]) = {0}
          /\ pc[r] = "fetching" =>
                /\ \A k \in Kinds :
                      inv'[r][k] # inv[r][k] =>
                          \A j \in Kinds \ {k} : inv'[r][j] = inv[r][j]
                /\ \A k \in Kinds :
                      IsSettled(inv[r][k]) =>
                          /\ inv'[r][k].phase = inv[r][k].phase
                          /\ inv'[r][k].data = inv[r][k].data
                          /\ inv'[r][k].lastError = inv[r][k].lastError
                          /\ Spawned(inv'[r][k]) = Spawned(inv[r][k])
                /\ pc'[r] = "done" =>
                      /\ \A k \in Kinds : IsSettled(inv[r][k])
                      /\ inv'[r] = inv[r]
                /\ pc'[r] # "done" => resp'[r] = None]_vars

\* the primary call has given up after three timeouts while the secondary
\* call is in its second attempt, and the request is still waiting
C14_Witness ==
    \E r \in Reqs :
        /\ pc[r] = "fetching" /\ resp[r] = None
        /\ inv[r]["product"].phase = "rejected"
        /\ inv[r]["product"].lastError = MsgTimeout
        /\ inv[r]["product"].onlyRL = FALSE
        /\ inv[r]["reviews"].phase = "running"
        /\ inv[r]["reviews"].attempt = 1

\* request r gets a success response that was not served from the cache
EndsFresh(r) ==
    /\ Ends(r)
    /\ resp'[r][1].status = 200
    /\ ~resp'[r][1].cached

\* C15: the cache is written only in the turn that returns a fresh success
\* response, a turn that starts with both calls settled; what is written
\* under the request's URL is the result that the response carries, stamped
\* with the time of that turn, so when the response is out the entry is in;
\* and a request for the same URL that arrives after a fresh success
\* response, less than TTL after it, is served from the cache with that
\* result.
C15_WriteBeforeResponse ==
    [][ /\ productCache' # productCache =>
              \E r \in Reqs : EndsFresh(r) /\ pc[r] = "fetching"
        /\ \A r \in Reqs :
              EndsFresh(r) =>
                  /\ pc[r] = "fetching"
                  /\ \A k \in Kinds : IsSettled(inv[r][k])
                  /\ productCache'[body[r].text]
                        = Some(Entry(resp'[r][1].result[1], now))
                  /\ resp'[r][1].result[1].title
                        = scrapeAmazonProduct(inv[r]["product"]).title
                  /\ resp'[r][1].result[1].reviewCount
                        = Len(ReviewsOf(analyzeReviews(inv[r]["reviews"])))
        /\ \A r, q \in Reqs :
              ( /\ pc[r] = "done"
                /\ resp[r][1].status = 200 /\ ~resp[r][1].cached
                /\ reqNo'[q] # reqNo[q]
                /\ body'[q] = body[r]
                /\ now - resp[r][1].result[1].lastUpdated < TTL )
              => /\ pc'[q] = "done"
                 /\ resp'[q][1].status = 200
                 /\ resp'[q][1].cached
                 /\ resp'[q][1].result[1].title = resp[r][1].result[1].title
                 /\ resp'[q][1].result[1].reviews = resp[r][1].result[1].reviews
                 /\ \A k \in Kinds : Spawned(inv'[q][k]) = {} ]_vars

\* the second request asked for the URL of the first one TickStep minutes
\* after the first one had stored and returned its result with a review, and
\* was served that result from the cache
C15_Witness ==
    \E r \in Reqs :
        /\ pc[r] = "done" /\ reqNo[r] = 2
        /\ resp[r][1].status = 200 /\ resp[r][1].cached
        /\ resp[r][1].result[1].reviewCount = 1
        /\ productCache[body[r].text][1].storedAt = 0
        /\ resp[r][1].result[1].lastUpdated = TickStep
        /\ productCache[body[r].text][1].value.lastUpdated = 0

\* C16: a request that arrives for a URL with no live entry starts its own
\* fetches even when another request is fetching the same URL; a request
\* writes the cache in one turn only, the one that gives it its response: a
\* fresh success makes exactly the one set of its result under its URL, and
\* an error response or a response served from the cache leaves the cache as
\* it was.
C16_NoSingleFlight ==
    [][ /\ \A r, q \in Reqs :
              ( /\ r # q
                /\ pc[q] = "fetching"
                /\ reqNo'[r] # reqNo[r]
                /\ body'[r] = body[q]
                /\ ~Live(productCache, body[q].text, now) )
              => /\ pc'[r] = "fetching"
                 /\ \A k \in Kinds : Spawned(inv'[r][k]) = {0}
                 /\ inv'[q] = inv[q]
        /\ \A r \in Reqs :
              /\ EndsFresh(r) =>
                    productCache' = CacheSet(productCache, body[r].text,
                                             resp'[r][1].result[1], now)
              /\ (Ends(r) /\ ~EndsFresh(r)) => productCache' = productCache
        /\ (\A r \in Reqs : ~Ends(r)) => productCache' = productCache ]_vars

\* both requests have missed on the same URL and each has its own workers
\* running
C16_Witness ==
    \E r, q \in Reqs :
        /\ r # q
        /\ body[r] = body[q]
        /\ pc[r] = "fetching" /\ pc[q] = "fetching"
        /\ \A k \in Kinds :
              /\ inv[r][k].workers[0] = "spawned"
              /\ inv[q][k].workers[0] = "spawned"
        /\ productCache[body[r].text] = None

\* the outcome of attempt a of a call, read off its promise
Outcome(i, a) ==
    IF i.promise[a] = "fulfilled" THEN "Success"
    ELSE IF i.promise[a] # "rejected" THEN "none"
    ELSE IF i.reason = MsgRateLimited THEN "RateLimited"
    ELSE IF Includes(i.reason, <<"Failed", "to", "parse">>) THEN "ParseError"
    ELSE IF Includes(i.reason, <<"Python", "script", "failed">>) THEN "ProcessError"
    ELSE "other"

\* the outcome an exit is to be given
Classified(o) ==
    IF o.code = "0"
    THEN IF o.out.json THEN "Success" ELSE "ParseError"
    ELSE IF \/ Includes(o.err, <<"429">>)
            \/ Includes(o.err, <<"rate", "limit">>)
            \/ Includes(o.err, <<"too", "many", "requests">>)
            \/ Includes(o.err, <<"blocked">>)
         THEN "RateLimited"
         ELSE "ProcessError"

\* C17: when the worker of the running attempt exits, the attempt's outcome
\* is Success for status 0 with a standard output that parses as JSON,
\* ParseError for status 0 with one that does not, and for another status
\* RateLimited if the standard error holds "429", "rate limit", "too many
\* requests" or "blocked", and ProcessError if it holds none of them.
C17_OutcomeClassification ==
    [][\A r \in Reqs, k \in Kinds :
          LET i == inv[r][k]
              a == i.attempt
          IN  ( /\ i.phase = "running"
                /\ i.workers[a] = "spawned"
                /\ inv'[r][k].workers[a] = "closed" )
              => \A o \in Exits(k) :
                    inv'[r][k] = CloseHandler([i EXCEPT !.workers[a] = "closed",
                                                        !.printed = o.out],
                                              a, o.code, o.out, o.err, MAX_RETRIES)
                    => Outcome(inv'[r][k], a) = Classified(o)]_vars

\* a title that is there and is not the "N/A" that stands for none
TitleUsable(title) ==
    /\ title.tag = "string"
    /\ title.s # ""
    /\ title # TitleSentinel

\* C18: every value the cache holds, and the result of every response with
\* status 200, served from the cache or not, has a title that is there and is
\* not "N/A".
C18_OnlyUsableCached ==
    /\ \A u \in CacheKeys :
          productCache[u] # None => TitleUsable(productCache[u][1].value.title)
    /\ \A r \in Reqs :
          (resp[r] # None /\ resp[r][1].status = 200) =>
              /\ resp[r][1].result # None
              /\ TitleUsable(resp[r][1].result[1].title)

\* the first request stored a result; the second, for the same URL after the
\* entry had expired, got a payload without a title, to which its wrapper
\* gave the title "N/A", and failed: the cache still holds the result of the
\* first request and nothing of the second
C18_Witness ==
    \E r \in Reqs :
        /\ pc[r] = "done" /\ reqNo[r] = 2
        /\ inv[r]["product"].phase = "resolved"
        /\ inv[r]["product"].data[1].title = Undefined
        /\ scrapeAmazonProduct(inv[r]["product"]).title = TitleSentinel
        /\ resp[r][1].status = 400
        /\ productCache[body[r].text] # None
        /\ now - productCache[body[r].text][1].storedAt >= TTL
        /\ productCache[body[r].text][1].value.title = TitleOk

\* C19: the promise of an attempt is settled once and stays as it was
\* settled; the "close" of a worker that the timeout had killed, or whose
\* spawn had failed, changes nothing of the call but the state of that worker
\* (no outcome, no retry, no backoff wait, no error kept); and a timeout
\* timer is armed only while its worker is running and its attempt is
\* undecided.
C19_OneOutcomePerAttempt ==
    [][\A r \in Reqs, k \in Kinds :
          LET i == inv[r][k]
              j == inv'[r][k]
          IN  reqNo'[r] = reqNo[r] =>
                \A a \in Attempts :
                    /\ i.promise[a] \in {"fulfilled", "rejected"} =>
                          j.promise[a] = i.promise[a]
                    /\ (i.promise[a] = "pending" /\ j.promise[a] # "pending") =>
                          /\ j.promise[a] \in {"fulfilled", "rejected"}
                          /\ i.attempt = a /\ i.phase = "running"
                          /\ ~j.timers[a]
                    /\ (i.workers[a] \in {"killed", "failed"}
                           /\ j.workers[a] = "closed") =>
                          j = [i EXCEPT !.workers[a] = "closed"]
                    /\ i.timers[a] =>
                          i.workers[a] = "spawned" /\ i.promise[a] = "pending"
                    /\ j.timers[a] =>
                          j.workers[a] = "spawned" /\ j.promise[a] = "pending"]_vars

\* the first attempt timed out and its worker has closed since; the call is
\* in its second attempt after the one wait of 1000 ms
C19_Witness ==
    \E r \in Reqs, k \in Kinds :
        LET i == inv[r][k]
        IN  /\ i.phase = "running" /\ i.attempt = 1
            /\ i.lastError = MsgTimeout
            /\ i.promise[0] = "rejected"
            /\ i.workers[0] = "closed"
            /\ i.slept = <<1000>>

\* the number of workers spawned for the request in slot r
Workers(r) ==
    Cardinality(Spawned(inv[r]["product"])) + Cardinality(Spawned(inv[r]["reviews"]))

\* C20: no worker is spawned for a request whose body does not name an
\* accepted URL, or that is served from the cache; for a request that missed,
\* each script has had between 1 and MAX_RETRIES + 1 workers, between 2 and
\* 2 * (MAX_RETRIES + 1) = 6 in all; and within a call the attempts come one
\* after the other: attempts 0..attempt have been spawned, all before the
\* current one have failed, at most one is undecided, and there has been one
\* backoff wait before each attempt after the first.
C20_WorkerBudget ==
    \A r \in Reqs :
        /\ ( /\ pc[r] = "done"
             /\ \/ body[r] \notin {Body(TRUE, "string", u) : u \in CacheKeys}
                \/ resp[r][1].cached )
           => Workers(r) = 0
        /\ ( \/ pc[r] = "fetching"
             \/ /\ pc[r] = "done"
                /\ body[r] \in {Body(TRUE, "string", u) : u \in CacheKeys}
                /\ ~resp[r][1].cached )
           => /\ Workers(r) >= 2
              /\ Workers(r) <= 2 * (MAX_RETRIES + 1)
              /\ Workers(r) <= 6
              /\ \A k \in Kinds :
                    LET i == inv[r][k]
                    IN  /\ Spawned(i) = 0..i.attempt
                        /\ Cardinality(Spawned(i)) \in 1..(MAX_RETRIES + 1)
                        /\ \A a \in 0..(i.attempt - 1) : i.promise[a] = "rejected"
                        /\ Cardinality({a \in Attempts : i.promise[a] = "pending"}) <= 1
                        /\ i.promise[i.attempt] = "pending" <=> i.phase = "running"
                        /\ Len(i.slept) = IF i.phase = "sleeping"
                                          THEN i.attempt + 1 ELSE i.attempt

\* a request that missed has used all six workers: the primary call gave up
\* after three, the secondary call succeeded with its third
C20_Witness ==
    \E r \in Reqs :
        /\ pc[r] = "done"
        /\ Workers(r) = 6
        /\ inv[r]["product"].phase = "rejected"
        /\ inv[r]["reviews"].phase = "resolved"
        /\ inv[r]["reviews"].slept = <<1000, 2000>>

\* C21: the turn in which a request is served from the cache leaves the
\* whole cache as it was: the stored value and its storedAt for the URL, and
\* every other entry; cached: true and the new lastUpdated are in the
\* response only, the stored value keeps the lastUpdated of the request that
\* stored it; so a request for a URL that was last served from the cache less
\* than TTL ago, but stored TTL or more ago, misses.
C21_HitWritesNothing ==
    [][\A r \in Reqs :
          /\ ( /\ reqNo'[r] # reqNo[r]
               /\ resp'[r] # None
               /\ resp'[r][1].cached )
             => LET u == body'[r].text
                IN  /\ productCache' = productCache
                    /\ productCache'[u][1].storedAt = productCache[u][1].storedAt
                    /\ productCache'[u][1].value = productCache[u][1].value
                    /\ resp'[r][1].result[1].lastUpdated = now
                    /\ productCache'[u][1].value.lastUpdated
                          = productCache[u][1].storedAt
                    /\ resp'[r][1].result[1]
                          = [productCache[u][1].value EXCEPT !.lastUpdated = now]
          /\ ( /\ pc[r] = "done"
               /\ resp[r][1].cached
               /\ reqNo'[r] # reqNo[r]
               /\ body'[r] = body[r]
               /\ now - productCache[body[r].text][1].storedAt >= TTL )
             => /\ pc'[r] = "fetching"
                /\ resp'[r] = None ]_vars

\* the third request was served from the cache TickStep minutes after the
\* entry was stored: the response says so, the entry is as it was stored
C21_Witness ==
    \E r \in Reqs :
        /\ pc[r] = "done" /\ reqNo[r] = 3
        /\ resp[r][1].cached
        /\ now = TickStep
        /\ resp[r][1].result[1].lastUpdated = now
        /\ productCache[body[r].text][1].storedAt = 0
        /\ productCache[body[r].text][1].value.lastUpdated = 0

\* C22: a request that has started its fetches gets its response in the end,
\* whatever its workers do, also when none of them ever exits; a request
\* has a response exactly when it is done, the response it has got stays as
\* it is, and by then each of its two calls has spawned at most
\* MAX_RETRIES + 1 workers and has returned or thrown.
C22_EveryRequestAnswered ==
    /\ \A r \in Reqs : (pc[r] = "fetching") ~> (pc[r] = "done" /\ resp[r] # None)
    /\ [](\A r \in Reqs :
             /\ pc[r] = "done" <=> resp[r] # None
             /\ (pc[r] = "done" /\ Workers(r) > 0) =>
                   \A k \in Kinds :
                       /\ IsSettled(inv[r][k])
                       /\ Cardinality(Spawned(inv[r][k])) <= MAX_RETRIES + 1)
    /\ [][\A r \in Reqs :
             (reqNo'[r] = reqNo[r] /\ resp[r] # None) =>
                 /\ resp'[r] = resp[r]
                 /\ pc'[r] = "done"]_vars

\* none of the six workers of the request has ever exited: every attempt was
\* cut off by its timeout, and the request has been answered
C22_Witness ==
    \E r \in Reqs :
        /\ pc[r] = "done" /\ resp[r] # None
        /\ resp[r][1].status = 400
        /\ \A k \in Kinds :
              /\ inv[r][k].phase = "rejected"
              /\ inv[r][k].lastError = MsgTimeout
              /\ \A a \in Attempts : inv[r][k].workers[a] = "killed"

====
